---- MODULE Spec2Model ----
(***************************************************************************)
(* A model of the concurrent scrape-and-download pipeline of               *)
(* src/Songs/scrappy_spider.py: run() partitions the queries over          *)
(* CONCURRENCY workers and submits one process_worker per non-empty        *)
(* bucket; each worker builds a browser session (build_driver), handles    *)
(* its queries one after the other, moves every finished download into     *)
(* the shared DOWNLOADS directory and finally releases its session         *)
(* (cleanup_driver).                                                       *)
(*                                                                         *)
(* Indices are those of the code: workers are 0..CONCURRENCY-1 and the     *)
(* global index of a query is 0-based, so the query at position i is       *)
(* queries[i+1] here.  A file name is a sequence of tokens, the token "."  *)
(* being the dot that pathlib's stem and suffix look for.                  *)
(***************************************************************************)
EXTENDS Integers, Sequences, FiniteSets, TLC

\* ------------------------------------------------------------------ bounds

\* Workers and queries of the pipeline specification (Spec).
MaxConcurrency == 2
MaxQueries == 3
\* Workers and queries of the pipeline specification with fairness (FairSpec).
MaxFairConcurrency == 2
MaxFairQueries == 2
\* Workers and queries of the partition specification (SpecPartition).
MaxPartConcurrency == 4
MaxPartQueries == 7

\* range(3) in build_driver.
MaxAttempts == 3

\* The texts a query may have (two rows of the CSV may hold the same text).
QueryTexts == {"a", "b"}

\* ------------------------------------------------------------------ names

Song == <<"Song", ".", "mp3">>
Song1 == <<"Song", " (1)", ".", "mp3">>
Song2 == <<"Song", " (2)", ".", "mp3">>
Song3 == <<"Song", " (3)", ".", "mp3">>

\* The names the site gives its downloads.
SiteNames == {Song}

\* What DOWNLOADS may hold when run() starts (files of earlier runs).
InitialDownloads == {{}, {Song1}}

\* The content of a file that was in DOWNLOADS before the run (the content
\* of a download is the global index of its query).
Old == 0 - 1

VARIABLES
  queries,         \* list(read_queries())
  concurrency,     \* CONCURRENCY
  buckets,         \* run: buckets[w], a list of (global_index, query)
  runpc,           \* run: where the orchestrator is
  nextWid,         \* run: the next wid of the submit comprehension
  collected,       \* run: the futures as_completed has yielded so far
  reported,        \* run: the workers whose "Worker error" was printed
  pc,              \* process_worker: where worker w is
  pos,             \* process_worker: position in tasks (1-based) of the current query
  exc,             \* process_worker: the exception that is propagating ("none": none)
  attempt,         \* build_driver: the attempts that have failed with a conflict
  backoffs,        \* build_driver: the time.sleep(1) calls made
  session,         \* the worker's browser session: "none", "open", "closed"
  temp_user_data,  \* d._temp_user_data is set (to the worker's profile directory)
  profiles,        \* the workers whose profile directory (user_data) exists
  worker_dir,      \* the files of DOWNLOADS/worker_<w+1>: name -> content
  downloads,       \* the files of DOWNLOADS: name -> content
  got,             \* process_worker: the name wait_for_download returned (<<>>: None)
  target,          \* process_worker: the name of the move's destination in DOWNLOADS
  k,               \* process_worker: the collision counter
  outcome          \* the line printed for query i: "none" while there is none

vars == <<queries, concurrency, buckets, runpc, nextWid, collected, reported,
          pc, pos, exc, attempt, backoffs, session, temp_user_data,
          profiles, worker_dir, downloads, got, target, k, outcome>>

\* The state of the functions that are checked on their own, each under a
\* specification of its own; the pipeline leaves it alone.
VARIABLES
  now,             \* time.time(), in tenths of a second
  ddir,            \* wait_for_download: the files of download_dir
  wfd,             \* wait_for_download: its frame
  nav,             \* force_nav: its frame, and what each strategy came to
  sh,              \* search_here: its frames
  sq,              \* simplify_query: its argument and its locals
  rt,              \* ListsMaker._retry: its frame
  pl               \* NPTELDownloader.download_playlist: its frame

watchVars == <<now, ddir, wfd>>

\* What the pipeline specifications leave alone.
auxVars == <<watchVars, nav, sh, sq, rt, pl>>

runVars == <<queries, concurrency, buckets, runpc, nextWid, collected, reported>>
driverVars == <<attempt, backoffs, session, temp_user_data, profiles>>
fileVars == <<worker_dir, downloads, got, target, k, outcome>>

Workers == 0 .. concurrency - 1
Indices == 0 .. Len(queries) - 1

\* ------------------------------------------------------------- partition

\* The bucket index counted from 1.
BucketIndexNext(i, n) == (i + 1) % n
\* run, line 453: the bucket of the query at position i.
BucketIndex(i, n) == i % n

\* run, lines 452-453: the enumerate loop from position i on.
RECURSIVE BucketsFrom(_, _, _, _)
BucketsFrom(qs, n, i, b) ==
  IF i >= Len(qs) THEN b
  ELSE BucketsFrom(qs, n, i + 1,
         [b EXCEPT ![BucketIndex(i, n)] = Append(@, <<i, qs[i + 1]>>)])

\* run, lines 451-453.
Buckets(qs, n) == BucketsFrom(qs, n, 0, [w \in 0 .. n - 1 |-> <<>>])

\* ------------------------------------------------------------------ init

EmptyDir == [n \in {} |-> Old]

\* The frame when wait_for_download is not running.
WatchIdle ==
  /\ now = 0
  /\ ddir = [n \in {} |-> [mtime |-> 0, since |-> 0]]
  /\ wfd = [pc |-> "idle", new_after_ts |-> 0, end |-> 0, candidate |-> <<>>,
            wake |-> 0, result |-> <<>>]

\* The frame when force_nav is not running.
NavIdle == nav = [pc |-> "idle", last_err |-> "none", log |-> <<>>, result |-> "none"]

\* simplify_query is not running.
SimplifyIdle == sq = [pc |-> "idle", q |-> <<>>, result |-> <<>>]

\* search_here is not running.
SearchIdle ==
  sh = [pc |-> "idle", q |-> <<>>, original_q |-> <<>>, simp |-> <<>>,
        derived |-> FALSE, sent |-> <<>>]

\* ListsMaker._retry is not running.
RetryIdle == rt = [pc |-> "idle", backoff |-> 0, calls |-> 0, sleep |-> 0,
                   raised |-> "none", http_status |-> 0]

\* NPTELDownloader.download_playlist is not running.
PlaylistIdle == pl = [pc |-> "idle", videos |-> <<>>, i |-> 0, downloaded |-> 0,
                      failed |-> 0, skipped |-> 0, success |-> FALSE]

\* The pipeline specifications run none of the functions checked on their own.
AuxIdle ==
  /\ WatchIdle /\ NavIdle /\ SearchIdle /\ SimplifyIdle /\ RetryIdle
  /\ PlaylistIdle

InitWith(qs, n, dl) ==
  /\ queries = qs
  /\ concurrency = n
  /\ buckets = [w \in 0 .. n - 1 |-> <<>>]
  /\ runpc = "start"
  /\ nextWid = 0
  /\ collected = {}
  /\ reported = {}
  /\ pc = [w \in 0 .. n - 1 |-> "unsubmitted"]
  /\ pos = [w \in 0 .. n - 1 |-> 0]
  /\ exc = [w \in 0 .. n - 1 |-> "none"]
  /\ attempt = [w \in 0 .. n - 1 |-> 0]
  /\ backoffs = [w \in 0 .. n - 1 |-> 0]
  /\ session = [w \in 0 .. n - 1 |-> "none"]
  /\ temp_user_data = [w \in 0 .. n - 1 |-> FALSE]
  /\ profiles = {}
  /\ worker_dir = [w \in 0 .. n - 1 |-> EmptyDir]
  /\ downloads = [f \in dl |-> Old]
  /\ got = [w \in 0 .. n - 1 |-> <<>>]
  /\ target = [w \in 0 .. n - 1 |-> <<>>]
  /\ k = [w \in 0 .. n - 1 |-> 0]
  /\ outcome = [i \in 0 .. Len(qs) - 1 |-> "none"]

\* The queries of the pipeline specification: the text plays no part in how a
\* worker handles a query, so one text per length is enough there.
Init ==
  \E len \in 0 .. MaxQueries, n \in 1 .. MaxConcurrency, dl \in InitialDownloads :
    InitWith([i \in 1 .. len |-> "a"], n, dl) /\ AuxIdle

InitFair ==
  \E len \in 0 .. MaxFairQueries, n \in 1 .. MaxFairConcurrency,
     dl \in InitialDownloads :
    InitWith([i \in 1 .. len |-> "a"], n, dl) /\ AuxIdle

InitPartition ==
  \E len \in 0 .. MaxPartQueries, n \in 1 .. MaxPartConcurrency :
    \E qs \in [1 .. len -> QueryTexts] : InitWith(qs, n, {}) /\ AuxIdle

\* ------------------------------------------------------------------- run

\* run, lines 445-453: read the queries, return when there are none, else
\* fill the buckets.
RunStart ==
  /\ runpc = "start"
  /\ IF queries = <<>>
     THEN /\ runpc' = "returned"
          /\ UNCHANGED buckets
     ELSE /\ buckets' = Buckets(queries, concurrency)
          /\ runpc' = "submit"
  /\ UNCHANGED <<queries, concurrency, nextWid, collected, reported,
                 pc, pos, exc>>
  /\ UNCHANGED driverVars
  /\ UNCHANGED fileVars



\* The comprehension without its filter.
ShouldSubmitAlways(tasks) == TRUE
\* run, line 455: the filter of the submit comprehension.
ShouldSubmit(tasks) == tasks # <<>>

\* run, line 455: one step of the comprehension, ex.submit(process_worker,
\* wid, tasks) when the bucket is not empty; the worker's thread starts.
Submit ==
  /\ runpc = "submit"
  /\ pc' = IF ShouldSubmit(buckets[nextWid])
           THEN [pc EXCEPT ![nextWid] = "build"]
           ELSE pc
  /\ nextWid' = nextWid + 1
  /\ runpc' = IF nextWid + 1 = concurrency THEN "collect" ELSE "submit"
  /\ UNCHANGED <<queries, concurrency, buckets, collected, reported, pos, exc>>
  /\ UNCHANGED driverVars
  /\ UNCHANGED fileVars

\* The futures of run: the workers that were submitted.
Futures == {w \in Workers : pc[w] # "unsubmitted"}

\* run cancelling the other workers when a worker's exception is caught.
CollectCancels(w) ==
  /\ runpc = "collect"
  /\ w \in Futures \ collected
  /\ pc[w] \in {"done", "failed"}
  /\ collected' = collected \cup {w}
  /\ reported' = IF pc[w] = "failed" THEN reported \cup {w} ELSE reported
  /\ pc' = IF pc[w] = "failed"
           THEN [v \in Workers |->
                   IF pc[v] \in {"unsubmitted", "done", "failed"}
                   THEN pc[v] ELSE "failed"]
           ELSE pc
  /\ UNCHANGED <<queries, concurrency, buckets, runpc, nextWid, pos, exc>>
  /\ UNCHANGED driverVars
  /\ UNCHANGED fileVars
\* run without the handler of lines 457-460: the worker's exception leaves run.
CollectReraise(w) ==
  /\ runpc = "collect"
  /\ w \in Futures \ collected
  /\ pc[w] \in {"done", "failed"}
  /\ collected' = collected \cup {w}
  /\ runpc' = IF pc[w] = "failed" THEN "aborted" ELSE runpc
  /\ UNCHANGED <<queries, concurrency, buckets, nextWid, reported, pc, pos, exc>>
  /\ UNCHANGED driverVars
  /\ UNCHANGED fileVars
\* run, lines 456-460: as_completed yields a finished future; result()
\* re-raises the worker's exception, which is caught and printed.
Collect(w) ==
  /\ runpc = "collect"
  /\ w \in Futures \ collected
  /\ pc[w] \in {"done", "failed"}
  /\ collected' = collected \cup {w}
  /\ reported' = IF pc[w] = "failed" THEN reported \cup {w} ELSE reported
  /\ UNCHANGED <<queries, concurrency, buckets, runpc, nextWid, pc, pos, exc>>
  /\ UNCHANGED driverVars
  /\ UNCHANGED fileVars

\* run, lines 454-461: every future was yielded, the pool is shut down and
\* the last line is printed.
Summary ==
  /\ runpc = "collect"
  /\ collected = Futures
  /\ runpc' = "done"
  /\ UNCHANGED <<queries, concurrency, buckets, nextWid, collected, reported,
                 pc, pos, exc>>
  /\ UNCHANGED driverVars
  /\ UNCHANGED fileVars

\* ---------------------------------------------------------- build_driver

\* build_driver, lines 67-69: the profile directory of the previous attempt,
\* when there is one, is removed and mkdtemp makes a new one, so a worker has
\* at most one profile directory at a time, the one user_data names.
FreshProfile(w) == profiles' = (profiles \ {w}) \cup {w}

\* build_driver, lines 65-99: an attempt whose webdriver.Chrome succeeds;
\* process_worker, line 254, then enters its try block.  The loop variable
\* of build_driver is dead from here on.
BuildOk(w) ==
  /\ pc[w] = "build"
  /\ attempt[w] < MaxAttempts
  /\ FreshProfile(w)
  /\ session' = [session EXCEPT ![w] = "open"]
  /\ temp_user_data' = [temp_user_data EXCEPT ![w] = TRUE]
  /\ attempt' = [attempt EXCEPT ![w] = 0]
  /\ pc' = [pc EXCEPT ![w] = "nav"]
  /\ UNCHANGED <<backoffs, pos, exc>>
  /\ UNCHANGED runVars
  /\ UNCHANGED fileVars

\* build_driver, lines 65-102 and 107: webdriver.Chrome raises
\* SessionNotCreatedException, the inner handler keeps it in last_err and
\* continues with the next attempt (the sleep of line 105 is in the outer
\* handler, which this exception never reaches); after the third attempt
\* last_err is raised, and process_worker ends with it.
BuildConflict(w) ==
  /\ pc[w] = "build"
  /\ attempt[w] < MaxAttempts
  /\ FreshProfile(w)
  /\ attempt' = [attempt EXCEPT ![w] = @ + 1]
  /\ IF attempt[w] + 1 = MaxAttempts
     THEN /\ pc' = [pc EXCEPT ![w] = "failed"]
          /\ exc' = [exc EXCEPT ![w] = "session"]
     ELSE UNCHANGED <<pc, exc>>
  /\ UNCHANGED <<backoffs, session, temp_user_data, pos>>
  /\ UNCHANGED runVars
  /\ UNCHANGED fileVars

\* build_driver, lines 65-97: webdriver.Chrome raises another exception
\* (the driver binary is missing, say), which no handler of build_driver
\* catches.
BuildError(w) ==
  /\ pc[w] = "build"
  /\ attempt[w] < MaxAttempts
  /\ FreshProfile(w)
  /\ pc' = [pc EXCEPT ![w] = "failed"]
  /\ exc' = [exc EXCEPT ![w] = "driver"]
  /\ UNCHANGED <<attempt, backoffs, session, temp_user_data, pos>>
  /\ UNCHANGED runVars
  /\ UNCHANGED fileVars

\* ------------------------------------------------------------ file names

\* pathlib: the position of the last dot of a name (0: none).
LastDot(name) ==
  LET dots == {j \in 1 .. Len(name) : name[j] = "."}
  IN IF dots = {} THEN 0 ELSE CHOOSE j \in dots : \A i \in dots : i <= j

\* pathlib: a name has a suffix when its last dot is neither its first nor
\* its last character.
HasSuffix(name) == 1 < LastDot(name) /\ LastDot(name) < Len(name)

\* process_worker, line 426: target.stem and target.suffix.
Stem(name) == IF HasSuffix(name) THEN SubSeq(name, 1, LastDot(name) - 1) ELSE name
Suffix(name) == IF HasSuffix(name) THEN SubSeq(name, LastDot(name), Len(name)) ELSE <<>>

\* process_worker, line 429: f"{stem} ({k}){suf}".
Cand(stem, kk, suf) == stem \o <<" (" \o ToString(kk) \o ")">> \o suf

\* The browser never replaces a file of its download directory: a download
\* whose name is taken there is saved under the first free "name (j)".
RECURSIVE SavedAs(_, _, _)
SavedAs(dir, name, j) ==
  LET cand == IF j = 0 THEN name ELSE Cand(Stem(name), j, Suffix(name))
  IN IF cand \notin DOMAIN dir THEN cand ELSE SavedAs(dir, name, j + 1)

\* -------------------------------------------------------- process_worker

\* Every worker given the bucket of worker 0.
TasksOfFirst(w) == buckets[0]
\* process_worker, line 249: tasks, the bucket run submitted the worker with.
Tasks(w) == buckets[w]
\* The global index of the worker's current query.
Current(w) == Tasks(w)[pos[w]][1]

\* process_worker, lines 256-261: the first navigation, when there are tasks.
Nav(w) ==
  /\ pc[w] = "nav"
  /\ IF Tasks(w) = <<>>
     THEN /\ pc' = [pc EXCEPT ![w] = "quit"]
          /\ UNCHANGED pos
     ELSE /\ pc' = [pc EXCEPT ![w] = "search"]
          /\ pos' = [pos EXCEPT ![w] = 1]
  /\ UNCHANGED exc
  /\ UNCHANGED runVars
  /\ UNCHANGED driverVars
  /\ UNCHANGED fileVars

\* The places of process_worker's try block where a call may raise: force_nav
\* (260), search_here and the wait for results (359-362), the location of the
\* download action (368-392), the click (394-400), the watch of the worker's
\* folder (402-413).
RaisingPlaces == {"nav", "search", "locate", "click", "await"}

\* process_worker, lines 255-442: no handler stands between a raising call
\* of the try block and the finally clause, so the for loop is left.
Raise(w) ==
  /\ pc[w] \in RaisingPlaces
  /\ Tasks(w) # <<>>
  /\ pc' = [pc EXCEPT ![w] = "quit"]
  /\ exc' = [exc EXCEPT ![w] = "pipeline"]
  /\ UNCHANGED pos
  /\ UNCHANGED runVars
  /\ UNCHANGED driverVars
  /\ UNCHANGED fileVars

\* A loop that leaves out every other task.
NextTaskSkips(w) ==
  /\ pc' = [pc EXCEPT ![w] = IF pos[w] + 1 < Len(Tasks(w)) THEN "search" ELSE "quit"]
  /\ pos' = [pos EXCEPT ![w] = @ + 2]
  /\ got' = [got EXCEPT ![w] = <<>>]
  /\ target' = [target EXCEPT ![w] = <<>>]
  /\ k' = [k EXCEPT ![w] = 0]
\* process_worker, line 356: the for loop takes the next task, or ends and
\* the finally clause is entered.  The locals of the iteration are dead.
NextTask(w) ==
  /\ pc' = [pc EXCEPT ![w] = IF pos[w] < Len(Tasks(w)) THEN "search" ELSE "quit"]
  /\ pos' = [pos EXCEPT ![w] = @ + 1]
  /\ got' = [got EXCEPT ![w] = <<>>]
  /\ target' = [target EXCEPT ![w] = <<>>]
  /\ k' = [k EXCEPT ![w] = 0]

\* process_worker, lines 357-364: the search brings results.
Search(w) ==
  /\ pc[w] = "search"
  /\ pc' = [pc EXCEPT ![w] = "locate"]
  /\ UNCHANGED <<pos, exc>>
  /\ UNCHANGED runVars
  /\ UNCHANGED driverVars
  /\ UNCHANGED fileVars

\* process_worker, lines 357-367: the list of results is empty; "No results
\* found" is printed and the loop continues.
NoResults(w) ==
  /\ pc[w] = "search"
  /\ outcome' = [outcome EXCEPT ![Current(w)] = "no_results"]
  /\ NextTask(w)
  /\ UNCHANGED <<exc, worker_dir, downloads>>
  /\ UNCHANGED runVars
  /\ UNCHANGED driverVars

\* process_worker, lines 368-392: the download action of a result is found.
Locate(w) ==
  /\ pc[w] = "locate"
  /\ pc' = [pc EXCEPT ![w] = "click"]
  /\ UNCHANGED <<pos, exc>>
  /\ UNCHANGED runVars
  /\ UNCHANGED driverVars
  /\ UNCHANGED fileVars

\* process_worker, lines 394-400: the click on the download link.
Click(w) ==
  /\ pc[w] = "click"
  /\ pc' = [pc EXCEPT ![w] = "await"]
  /\ UNCHANGED <<pos, exc>>
  /\ UNCHANGED runVars
  /\ UNCHANGED driverVars
  /\ UNCHANGED fileVars

\* process_worker, lines 402-423: the browser has saved the download in the
\* worker's folder, and wait_for_download returns it.
Await(w) ==
  /\ pc[w] = "await"
  /\ \E name \in SiteNames :
       LET saved == SavedAs(worker_dir[w], name, 0)
       IN /\ worker_dir' = [worker_dir EXCEPT ![w] = (saved :> Current(w)) @@ @]
          /\ got' = [got EXCEPT ![w] = saved]
  /\ pc' = [pc EXCEPT ![w] = "resolve"]
  /\ UNCHANGED <<pos, exc, downloads, target, k, outcome>>
  /\ UNCHANGED runVars
  /\ UNCHANGED driverVars

\* process_worker, lines 402-422 and 439-440: wait_for_download returns
\* None; the warning is printed and the loop continues.
NoFile(w) ==
  /\ pc[w] = "await"
  /\ outcome' = [outcome EXCEPT ![Current(w)] = "no_file"]
  /\ NextTask(w)
  /\ UNCHANGED <<exc, worker_dir, downloads>>
  /\ UNCHANGED runVars
  /\ UNCHANGED driverVars

\* ----------------------------------------------------- collision and move

\* A collision counter that starts at 0.
FirstKZero == 1 - 1
\* process_worker, line 427: the first k tried.
FirstK == 1

\* process_worker, lines 423-427: the target is the download's own name in
\* DOWNLOADS; the loop is entered when that exists.
Resolve(w) ==
  /\ pc[w] = "resolve"
  /\ target' = [target EXCEPT ![w] = got[w]]
  /\ IF got[w] \in DOMAIN downloads
     THEN /\ k' = [k EXCEPT ![w] = FirstK]
          /\ pc' = [pc EXCEPT ![w] = "loop"]
     ELSE /\ pc' = [pc EXCEPT ![w] = "move"]
          /\ UNCHANGED k
  /\ UNCHANGED <<pos, exc, worker_dir, downloads, got, outcome>>
  /\ UNCHANGED runVars
  /\ UNCHANGED driverVars

\* process_worker, lines 428-433: one turn of the while loop.
Loop(w) ==
  /\ pc[w] = "loop"
  /\ LET cand == Cand(Stem(target[w]), k[w], Suffix(target[w]))
     IN IF cand \notin DOMAIN downloads
        THEN /\ target' = [target EXCEPT ![w] = cand]
             /\ pc' = [pc EXCEPT ![w] = "move"]
             /\ UNCHANGED k
        ELSE /\ k' = [k EXCEPT ![w] = @ + 1]
             /\ UNCHANGED <<target, pc>>
  /\ UNCHANGED <<pos, exc, worker_dir, downloads, got, outcome>>
  /\ UNCHANGED runVars
  /\ UNCHANGED driverVars

\* A directory without the file called name.
Without(dir, name) == [f \in DOMAIN dir \ {name} |-> dir[f]]

\* process_worker, lines 434-438: shutil.move renames the download to the
\* target, replacing a file of that name, and the name is printed.
Move(w) ==
  /\ pc[w] = "move"
  /\ downloads' = (target[w] :> worker_dir[w][got[w]]) @@ downloads
  /\ worker_dir' = [worker_dir EXCEPT ![w] = Without(@, got[w])]
  /\ outcome' = [outcome EXCEPT ![Current(w)] = "downloaded"]
  /\ NextTask(w)
  /\ UNCHANGED exc
  /\ UNCHANGED runVars
  /\ UNCHANGED driverVars

\* process_worker, lines 434-438: shutil.move raises; the download stays
\* where it is and its name there is printed.
MoveFails(w) ==
  /\ pc[w] = "move"
  /\ outcome' = [outcome EXCEPT ![Current(w)] = "downloaded"]
  /\ NextTask(w)
  /\ UNCHANGED <<exc, worker_dir, downloads>>
  /\ UNCHANGED runVars
  /\ UNCHANGED driverVars

\* -------------------------------------------------------- cleanup_driver

\* cleanup_driver, line 110: d.quit() closes the session.
Quit(w) ==
  /\ pc[w] = "quit"
  /\ session' = [session EXCEPT ![w] = "closed"]
  /\ pc' = [pc EXCEPT ![w] = "rmtree"]
  /\ UNCHANGED <<attempt, backoffs, temp_user_data, profiles, pos, exc>>
  /\ UNCHANGED runVars
  /\ UNCHANGED fileVars

\* cleanup_driver, line 110: d.quit() raises; the browser may or may not
\* have ended.  The finally clause follows.
QuitRaises(w) ==
  /\ pc[w] = "quit"
  /\ \E s \in {"open", "closed"} : session' = [session EXCEPT ![w] = s]
  /\ exc' = [exc EXCEPT ![w] = "quit"]
  /\ pc' = [pc EXCEPT ![w] = "rmtree"]
  /\ UNCHANGED <<attempt, backoffs, temp_user_data, profiles, pos>>
  /\ UNCHANGED runVars
  /\ UNCHANGED fileVars

\* cleanup_driver without its finally: the removal is skipped when d.quit()
\* raised.
RemoveProfileUnlessRaised(w) ==
  /\ pc[w] = "rmtree"
  /\ profiles' = IF exc[w] = "quit" \/ ~temp_user_data[w] THEN profiles
                 ELSE profiles \ {w}
  /\ pc' = [pc EXCEPT ![w] = IF exc[w] = "none" THEN "done" ELSE "failed"]
  /\ UNCHANGED <<attempt, backoffs, session, temp_user_data, pos, exc>>
  /\ UNCHANGED runVars
  /\ UNCHANGED fileVars
\* cleanup_driver, lines 111-113: the finally clause removes the profile
\* directory; process_worker then returns, or ends with the exception.
RemoveProfile(w) ==
  /\ pc[w] = "rmtree"
  /\ profiles' = IF temp_user_data[w] THEN profiles \ {w} ELSE profiles
  /\ pc' = [pc EXCEPT ![w] = IF exc[w] = "none" THEN "done" ELSE "failed"]
  /\ UNCHANGED <<attempt, backoffs, session, temp_user_data, pos, exc>>
  /\ UNCHANGED runVars
  /\ UNCHANGED fileVars

\* ----------------------------------------------------- wait_for_download

\* time.sleep(0.2) and time.sleep(0.3), in tenths of a second.
Phase1Sleep == 2
Phase2Sleep == 3

\* The timeouts wait_for_download is called with, in tenths of a second.
MaxTimeout == 7

\* process_worker, line 399: click_time; a file of mtime 0 is older.
ClickTime == 1

\* The download the click has triggered, and the download of an earlier
\* query of the worker: an mp3 file, a file whose own name ends in the
\* temporary extension, or a file whose name begins with a dot.
Other == <<"Other", ".", "mp3">>
Temp == <<"Temp", ".", "mp3", ".", "crdownload">>
Dot == <<".", "Dot", ".", "mp3">>
Triggered == {Song, Other, Temp, Dot}

Crdownload == <<".", "crdownload">>
\* The name of a download while the browser writes it.
Partial(name) == name \o Crdownload

\* None, for a path.
NoPath == <<>>

\* glob('*.crdownload') and p.suffix == '.crdownload'.
IsCrdownload(name) == Suffix(name) = Crdownload
\* p.name.startswith('.')
Hidden(name) == name # <<>> /\ name[1] = "."

\* The partial name with its temporary extension kept.
TargetStemWhole(name) == name
\* wait_for_download, line 165: candidate.name[:-len('.crdownload')].
TargetStem(name) == SubSeq(name, 1, Len(name) - Len(Crdownload))

\* A scan that keeps the least recently modified of the partial files that
\* are new enough.
Earliest(dir, ts) ==
  LET started == {p \in DOMAIN dir : Suffix(p) = <<".", "crdownload">>
                                      /\ dir[p].mtime >= ts}
  IN {p \in started : \A o \in started : dir[p].mtime <= dir[o].mtime}

\* wait_for_download, lines 140-147: the partial files that are new enough,
\* and those of them `latest` may end as (the first, in glob's order, of
\* those with the greatest mtime).
Started(dir, ts) == {p \in DOMAIN dir : IsCrdownload(p) /\ dir[p].mtime >= ts}
Latest(dir, ts) ==
  {p \in Started(dir, ts) : \A o \in Started(dir, ts) : dir[o].mtime <= dir[p].mtime}

\* A scan that takes partial files too.
NewFilesUnfiltered(dir, ts) == {p \in DOMAIN dir : dir[p].mtime >= ts}
\* wait_for_download, lines 154-161 and 173-179: the files a scan may
\* return (every file of the model is a regular file).
NewFiles(dir, ts) ==
  {p \in DOMAIN dir : ~Hidden(p) /\ ~IsCrdownload(p) /\ dir[p].mtime >= ts}

\* The download directory when the call begins: empty, or with the partial
\* file of an earlier download that has not ended.
InitialDirs ==
  {[n \in {} |-> [mtime |-> 0, since |-> 0]]}
    \cup {[n \in {Partial(f)} |-> [mtime |-> 0, since |-> 0]] :
            f \in Triggered \ {Song}}

\* The variables wait_for_download leaves alone.
notWatch == <<vars, nav, sh, sq, rt, pl>>

Running == wfd.pc \in {"phase1", "phase2"}

\* The browser begins to write the download of the click.
BrowserStarts ==
  /\ Running
  /\ Song \notin DOMAIN ddir
  /\ Partial(Song) \notin DOMAIN ddir
  /\ ddir' = (Partial(Song) :> [mtime |-> now, since |-> 0]) @@ ddir
  /\ UNCHANGED <<now, wfd>>
  /\ UNCHANGED notWatch

\* The browser writes to a partial file.
BrowserWrites(f) ==
  /\ Running
  /\ Partial(f) \in DOMAIN ddir
  /\ ddir' = [ddir EXCEPT ![Partial(f)].mtime = now]
  /\ UNCHANGED <<now, wfd>>
  /\ UNCHANGED notWatch

\* The browser ends a download: the partial file is renamed to its final
\* name and keeps its mtime; `since` is the time of the renaming.
BrowserFinishes(f) ==
  /\ Running
  /\ Partial(f) \in DOMAIN ddir
  /\ ddir' = (f :> [mtime |-> ddir[Partial(f)].mtime, since |-> now])
               @@ Without(ddir, Partial(f))
  /\ UNCHANGED <<now, wfd>>
  /\ UNCHANGED notWatch

\* The browser gives a download up and removes its partial file.
BrowserCancels(f) ==
  /\ Running
  /\ Partial(f) \in DOMAIN ddir
  /\ ddir' = Without(ddir, Partial(f))
  /\ UNCHANGED <<now, wfd>>
  /\ UNCHANGED notWatch

\* Time passes while wait_for_download sleeps (a scan takes no time).
Tick ==
  /\ Running
  /\ now < wfd.wake
  /\ now' = now + 1
  /\ UNCHANGED <<ddir, wfd>>
  /\ UNCHANGED notWatch

\* wait_for_download, lines 138-149: a turn of phase 1 that finds a partial
\* file; phase 2 begins.
Phase1Finds ==
  /\ wfd.pc = "phase1"
  /\ now >= wfd.wake
  /\ now < wfd.end
  /\ \E p \in Latest(ddir, wfd.new_after_ts) :
       wfd' = [wfd EXCEPT !.candidate = p, !.pc = "phase2"]
  /\ UNCHANGED <<now, ddir>>
  /\ UNCHANGED notWatch

\* wait_for_download, lines 138-151: a turn of phase 1 that finds none.
Phase1Sleeps ==
  /\ wfd.pc = "phase1"
  /\ now >= wfd.wake
  /\ now < wfd.end
  /\ Latest(ddir, wfd.new_after_ts) = {}
  /\ wfd' = [wfd EXCEPT !.wake = now + Phase1Sleep]
  /\ UNCHANGED <<now, ddir>>
  /\ UNCHANGED notWatch

\* wait_for_download, lines 138 and 152-162: phase 1 has run out of time
\* without a candidate; the first new file of a scan is returned, or None.
Fallback ==
  /\ wfd.pc = "phase1"
  /\ now >= wfd.wake
  /\ now >= wfd.end
  /\ IF NewFiles(ddir, wfd.new_after_ts) = {}
     THEN wfd' = [wfd EXCEPT !.result = NoPath, !.pc = "returned"]
     ELSE \E p \in NewFiles(ddir, wfd.new_after_ts) :
            wfd' = [wfd EXCEPT !.result = p, !.pc = "returned"]
  /\ UNCHANGED <<now, ddir>>
  /\ UNCHANGED notWatch

\* wait_for_download, lines 166-167 and 179: the candidate is still there.
Phase2Waits ==
  /\ wfd.pc = "phase2"
  /\ now >= wfd.wake
  /\ now < wfd.end
  /\ wfd.candidate \in DOMAIN ddir
  /\ wfd' = [wfd EXCEPT !.wake = now + Phase2Sleep]
  /\ UNCHANGED <<now, ddir>>
  /\ UNCHANGED notWatch

\* wait_for_download, lines 165-170: the candidate is gone and the file of
\* its final name is there.
Phase2Final ==
  /\ wfd.pc = "phase2"
  /\ now >= wfd.wake
  /\ now < wfd.end
  /\ wfd.candidate \notin DOMAIN ddir
  /\ TargetStem(wfd.candidate) \in DOMAIN ddir
  /\ wfd' = [wfd EXCEPT !.result = TargetStem(wfd.candidate), !.pc = "returned"]
  /\ UNCHANGED <<now, ddir>>
  /\ UNCHANGED notWatch

\* wait_for_download, lines 165-179: the candidate is gone and so is the
\* file of its final name; the first new file of a scan is returned, and
\* when there is none the loop sleeps.
Phase2Scan ==
  /\ wfd.pc = "phase2"
  /\ now >= wfd.wake
  /\ now < wfd.end
  /\ wfd.candidate \notin DOMAIN ddir
  /\ TargetStem(wfd.candidate) \notin DOMAIN ddir
  /\ IF NewFiles(ddir, wfd.new_after_ts) = {}
     THEN wfd' = [wfd EXCEPT !.wake = now + Phase2Sleep]
     ELSE \E p \in NewFiles(ddir, wfd.new_after_ts) :
            wfd' = [wfd EXCEPT !.result = p, !.pc = "returned"]
  /\ UNCHANGED <<now, ddir>>
  /\ UNCHANGED notWatch

\* wait_for_download, lines 166 and 180: phase 2 has run out of time.
Phase2Timeout ==
  /\ wfd.pc = "phase2"
  /\ now >= wfd.wake
  /\ now >= wfd.end
  /\ wfd' = [wfd EXCEPT !.result = NoPath, !.pc = "returned"]
  /\ UNCHANGED <<now, ddir>>
  /\ UNCHANGED notWatch

\* wait_for_download is called when the click has been made: line 134.
InitWatch ==
  /\ InitWith(<<>>, 1, {})
  /\ NavIdle /\ SearchIdle /\ SimplifyIdle /\ RetryIdle /\ PlaylistIdle
  /\ now = ClickTime
  /\ ddir \in InitialDirs
  /\ \E timeout \in 1 .. MaxTimeout :
       wfd = [pc |-> "phase1", new_after_ts |-> ClickTime,
              end |-> ClickTime + timeout, candidate |-> NoPath,
              wake |-> ClickTime, result |-> NoPath]

\* The steps of wait_for_download.
WatchStep ==
  \/ Phase1Finds
  \/ Phase1Sleeps
  \/ Fallback
  \/ Phase2Waits
  \/ Phase2Final
  \/ Phase2Scan
  \/ Phase2Timeout

NextWatch ==
  \/ BrowserStarts
  \/ \E f \in Triggered : BrowserWrites(f)
  \/ \E f \in Triggered : BrowserFinishes(f)
  \/ \E f \in Triggered : BrowserCancels(f)
  \/ Tick
  \/ WatchStep

\* The clock runs and the thread of wait_for_download is not held up.
SpecWatch ==
  /\ InitWatch
  /\ [][NextWatch]_watchVars
  /\ WF_watchVars(Tick)
  /\ WF_watchVars(WatchStep)

\* -------------------------------------------------------------- force_nav

\* The strategies in another order.
TargetsCdpFirst == <<"cdp", "direct", "js", "new_tab">>
\* force_nav, lines 186-191: the labels of targets.
Targets == <<"direct", "js", "new_tab", "cdp">>

\* What action() and _wait_ready may raise.
NavErrors == {"TimeoutException", "WebDriverException"}

\* A handler that keeps the first exception.
RememberFirst(last, e) == IF last = "none" THEN e ELSE last
\* force_nav, lines 199-200: last_err = e.
Remember(last, e) == e

\* The variables force_nav leaves alone.
notNav == <<vars, watchVars, sh, sq, rt, pl>>

\* nav.log holds, for every turn of the loop so far, the label of the
\* strategy, the exception it raised ("none": none) and whether the browser
\* was on the site ("mp3juice" in current_url) when the turn ended.
Turn(err, on_site) ==
  [label |-> Targets[Len(nav.log) + 1], err |-> err, on_site |-> on_site]

\* force_nav, lines 193-198: the strategy and the wait for the page raise
\* nothing and the browser is on the site; force_nav returns.
NavLands ==
  /\ nav.pc = "loop"
  /\ Len(nav.log) < Len(Targets)
  /\ nav' = [nav EXCEPT !.log = Append(@, Turn("none", TRUE)),
                        !.pc = "returned"]
  /\ UNCHANGED notNav

\* force_nav, lines 193-197: nothing is raised and the browser is elsewhere;
\* the loop goes on.
NavElsewhere ==
  /\ nav.pc = "loop"
  /\ Len(nav.log) < Len(Targets)
  /\ nav' = [nav EXCEPT !.log = Append(@, Turn("none", FALSE))]
  /\ UNCHANGED notNav

\* force_nav, lines 194-201: action() or _wait_ready raises, wherever the
\* browser is by then (a page of the site that does not finish loading
\* within the 15 s makes _wait_ready raise); the handler keeps the exception
\* and the loop goes on.
NavRaises ==
  /\ nav.pc = "loop"
  /\ Len(nav.log) < Len(Targets)
  /\ \E e \in NavErrors, on_site \in BOOLEAN :
       nav' = [nav EXCEPT !.log = Append(@, Turn(e, on_site)),
                          !.last_err = Remember(@, e)]
  /\ UNCHANGED notNav

\* force_nav, lines 192 and 203: the loop is through; last_err is raised,
\* or a RuntimeError when there is none.
NavFails ==
  /\ nav.pc = "loop"
  /\ Len(nav.log) = Len(Targets)
  /\ nav' = [nav EXCEPT !.pc = "raised",
                        !.result = IF nav.last_err # "none" THEN nav.last_err
                                   ELSE "RuntimeError"]
  /\ UNCHANGED notNav

\* force_nav, line 192.
InitNav ==
  /\ InitWith(<<>>, 1, {})
  /\ WatchIdle /\ SearchIdle /\ SimplifyIdle /\ RetryIdle /\ PlaylistIdle
  /\ nav = [pc |-> "loop", last_err |-> "none", log |-> <<>>, result |-> "none"]

NextNav ==
  \/ NavLands
  \/ NavElsewhere
  \/ NavRaises
  \/ NavFails

SpecNav == InitNav /\ [][NextNav]_nav

\* --------------------------------------------------------- simplify_query

\* A query is the sequence of its characters.  The queries tried are a run
\* of letters followed by a tail over the characters simplify_query looks
\* for, and the query of the docstring's kind that the specification gives.
Alphabet == {"a", " ", "-", "(", "["}
MaxTail == 4
PadLengths == {0, 88, 89, 139}
Pad(n) == [i \in 1 .. n |-> "a"]
Imagine ==
  <<"I", "m", "a", "g", "i", "n", "e", " ", "-", " ", "J", "o", "h", "n", " ",
    "L", "e", "n", "n", "o", "n", " ", "(", "R", "e", "m", "a", "s", "t", "e",
    "r", "e", "d", " ", "2", "0", "1", "0", ")">>
Tails == UNION {[1 .. n -> Alphabet] : n \in 0 .. MaxTail}
Queries == {Pad(n) \o w : n \in PadLengths, w \in Tails} \cup {Imagine}

\* str.find: where sep first occurs in s (0: nowhere).
Find(s, sep) ==
  LET hits == {i \in 1 .. Len(s) - Len(sep) + 1 :
                 SubSeq(s, i, i + Len(sep) - 1) = sep}
  IN IF hits = {} THEN 0 ELSE CHOOSE i \in hits : \A j \in hits : i <= j

\* s.split(sep)[0]
SplitFirst(s, sep) ==
  LET i == Find(s, sep) IN IF i = 0 THEN s ELSE SubSeq(s, 1, i - 1)

\* str.strip: the whitespace of the queries tried is the blank.
RECURSIVE LStrip(_)
LStrip(s) == IF s # <<>> /\ Head(s) = " " THEN LStrip(Tail(s)) ELSE s
RECURSIVE RStrip(_)
RStrip(s) ==
  IF s # <<>> /\ s[Len(s)] = " " THEN RStrip(SubSeq(s, 1, Len(s) - 1)) ELSE s
Strip(s) == RStrip(LStrip(s))

\* simplify_query, lines 222-224: one turn of the loop over "(" and "[".
Cut(base, sep) ==
  IF Find(base, <<sep>>) # 0 THEN Strip(SplitFirst(base, <<sep>>)) ELSE base

\* simplify_query, line 225: the greatest length of the result.
MaxBase == 90
\* A base that is not cut to length.
LimitNone(base) == base
\* simplify_query, lines 225-226.
Limit(base) == IF Len(base) > MaxBase THEN SubSeq(base, 1, MaxBase) ELSE base

\* simplify_query, lines 220-227.
simplify_query(q) ==
  Limit(Cut(Cut(Strip(SplitFirst(q, <<" ", "-", " ">>)), "("), "["))

\* The variables simplify_query leaves alone.
notSimplify == <<vars, watchVars, nav, sh, rt, pl>>

\* simplify_query(q) is called and returns.
Simplify ==
  /\ sq.pc = "called"
  /\ sq' = [sq EXCEPT !.result = simplify_query(sq.q), !.pc = "returned"]
  /\ UNCHANGED notSimplify

InitSimplify ==
  /\ InitWith(<<>>, 1, {})
  /\ WatchIdle /\ NavIdle /\ SearchIdle /\ RetryIdle /\ PlaylistIdle
  /\ \E q \in Queries : sq = [pc |-> "called", q |-> q, result |-> <<>>]

NextSimplify == Simplify

SpecSimplify == InitSimplify /\ [][NextSimplify]_sq

\* ------------------------------------------------------------ search_here

\* The queries search_here is tried with.
MaxSearchTail == 3
SearchQueries ==
  {Pad(n) \o w : n \in PadLengths,
                 w \in UNION {[1 .. m -> Alphabet] : m \in 0 .. MaxSearchTail}}

\* search_here, line 286: a longer query is simplified before it is typed.
LongQuery == 140

\* The variables search_here leaves alone.
notSearch == <<vars, watchVars, nav, sq, rt, pl>>

\* sh.sent holds the texts submitted since search_here was first called for
\* the query, each with whether it is a result of simplify_query; sh.derived
\* says so of the argument q of the call that is running.

\* search_here, lines 272-279 and 284-287: an input box is found; a query
\* of more than 140 characters is simplified.
ShBoxFound ==
  /\ sh.pc = "box"
  /\ sh' = [sh EXCEPT !.original_q = sh.q,
                      !.q = IF Len(sh.q) > LongQuery THEN simplify_query(sh.q)
                            ELSE sh.q,
                      !.derived = sh.derived \/ Len(sh.q) > LongQuery,
                      !.pc = "submit"]
  /\ UNCHANGED notSearch

\* search_here, lines 272-282: no input box is found; force_nav is called.
ShBoxMissing ==
  /\ sh.pc = "box"
  /\ sh' = [sh EXCEPT !.pc = "renav"]
  /\ UNCHANGED notSearch

\* search_here, lines 282-283: force_nav returns and search_here(q) is
\* called, whose result is returned.
ShRenavReturns ==
  /\ sh.pc = "renav"
  /\ sh' = [sh EXCEPT !.pc = "box"]
  /\ UNCHANGED notSearch

\* search_here, lines 282, 350 and 353: force_nav raises, and search_here
\* ends with the exception.
ShNavRaises ==
  /\ sh.pc \in {"renav", "retry_nav"}
  /\ sh' = [sh EXCEPT !.pc = "raised"]
  /\ UNCHANGED notSearch

\* search_here, lines 288-319: q is typed into the box and submitted, by a
\* click on a submit button or by the Enter key.
ShSubmit ==
  /\ sh.pc = "submit"
  /\ sh' = [sh EXCEPT !.sent = Append(@, [text |-> sh.q,
                                          simplified |-> sh.derived]),
                      !.pc = "wait"]
  /\ UNCHANGED notSearch

\* search_here, lines 288-319: a call on the box raises (the element has
\* gone stale, say), and search_here ends with the exception.
ShSubmitRaises ==
  /\ sh.pc = "submit"
  /\ sh' = [sh EXCEPT !.pc = "raised"]
  /\ UNCHANGED notSearch

\* search_here, lines 321-323: a result is there within the 6 s.
ShResults ==
  /\ sh.pc = "wait"
  /\ sh' = [sh EXCEPT !.pc = "returned"]
  /\ UNCHANGED notSearch

\* search_here, lines 321-326: no result within the 6 s; the original
\* query is simplified, and the retry follows when that differs from q.
ShNoResults ==
  /\ sh.pc = "wait"
  /\ LET simp == simplify_query(sh.original_q)
     IN sh' = [sh EXCEPT !.simp = simp,
                         !.pc = IF simp # sh.q THEN "retry" ELSE "returned"]
  /\ UNCHANGED notSearch

\* search_here, lines 327-346: an input box is found again, simp is typed
\* and a submit button is clicked; search_here returns.
ShRetrySubmits ==
  /\ sh.pc = "retry"
  /\ sh' = [sh EXCEPT !.sent = Append(@, [text |-> sh.simp,
                                          simplified |-> TRUE]),
                      !.pc = "returned"]
  /\ UNCHANGED notSearch

\* search_here, lines 337-346: simp is typed but no submit button can be
\* clicked; search_here returns.
ShRetryNoButton ==
  /\ sh.pc = "retry"
  /\ sh' = [sh EXCEPT !.pc = "returned"]
  /\ UNCHANGED notSearch

\* search_here, lines 328-353: no input box is found, or a call on the box
\* raises; force_nav is called.
ShRetryRenav ==
  /\ sh.pc = "retry"
  /\ sh' = [sh EXCEPT !.pc = "retry_nav"]
  /\ UNCHANGED notSearch

\* search_here, lines 350-354: force_nav returns and search_here(simp) is
\* called, whose result is returned.
ShRetryNavReturns ==
  /\ sh.pc = "retry_nav"
  /\ sh' = [sh EXCEPT !.q = sh.simp, !.derived = TRUE, !.pc = "box"]
  /\ UNCHANGED notSearch

\* process_worker, line 359: search_here(q).
InitSearch ==
  /\ InitWith(<<>>, 1, {})
  /\ WatchIdle /\ NavIdle /\ SimplifyIdle /\ RetryIdle /\ PlaylistIdle
  /\ \E q \in SearchQueries :
       sh = [pc |-> "box", q |-> q, original_q |-> <<>>, simp |-> <<>>,
             derived |-> FALSE, sent |-> <<>>]

NextSearch ==
  \/ ShBoxMissing
  \/ ShBoxFound
  \/ ShRenavReturns
  \/ ShNavRaises
  \/ ShSubmit
  \/ ShSubmitRaises
  \/ ShResults
  \/ ShNoResults
  \/ ShRetrySubmits
  \/ ShRetryNoButton
  \/ ShRetryRenav
  \/ ShRetryNavReturns

SpecSearch == InitSearch /\ [][NextSearch]_sh

\* The thread of search_here is not held up: every wait of the function has
\* a timeout (5 s, 2 s, 6 s, 3 s, and 15 s in force_nav), so a step is
\* always taken.  The depth of the recursion of lines 283, 351 and 354 is
\* not part of the frame: the program sets no limit to it.
SpecSearchFair == InitSearch /\ [][NextSearch]_sh /\ WF_sh(NextSearch)

\* ------------------------------------------------------ ListsMaker._retry

\* The calls of fn are counted up to MaxCalls.
MaxCalls == 6

\* _retry, line 430: the first backoff, in seconds, and lines 442 and 447:
\* the greatest.
FirstBackoff == 1
MaxBackoff == 16

\* _retry, line 436: the wait when the response has no Retry-After header,
\* and the values of the header tried, in seconds.
DefaultRetryAfter == 2
RetryAfters == {<<>>, <<1>>}

\* The statuses a SpotifyException of fn is tried with.
Statuses == {400, 401, 403, 404, 408, 429, 500}

\* _retry, line 435.
RateLimited(st) == st = 429
\* _retry, line 440: the statuses taken to be transient.
Transient(st) == st >= 500 \/ st \in {401, 403, 408}

\* The variables _retry leaves alone.
notRetry == <<vars, watchVars, nav, sh, sq, pl>>

\* _retry, line 433: fn is called once more.
Called == [rt EXCEPT !.calls = IF @ < MaxCalls THEN @ + 1 ELSE @]

\* _retry, line 433: fn returns and _retry returns its result.
RetryReturns ==
  /\ rt.pc = "call"
  /\ rt' = [Called EXCEPT !.pc = "returned", !.raised = "none",
                          !.http_status = 0]
  /\ UNCHANGED notRetry

\* _retry, lines 434-438: fn raises SpotifyException with status 429; the
\* sleep lasts the Retry-After of the response and a quarter of a second
\* (rt.sleep is in quarters of a second).
RetryRateLimited ==
  /\ rt.pc = "call"
  /\ \E st \in Statuses, h \in RetryAfters :
       LET wait == IF h = <<>> THEN DefaultRetryAfter ELSE h[1]
       IN /\ RateLimited(st)
          /\ rt' = [Called EXCEPT !.pc = "sleep", !.raised = "SpotifyException",
                                  !.http_status = st, !.sleep = 4 * wait + 1]
  /\ UNCHANGED notRetry

\* _retry, lines 434 and 440-441: fn raises SpotifyException with a status
\* of 500 or more, or 401, 403 or 408; the sleep lasts backoff.
RetryTransient ==
  /\ rt.pc = "call"
  /\ \E st \in Statuses :
       /\ ~RateLimited(st)
       /\ Transient(st)
       /\ rt' = [Called EXCEPT !.pc = "sleep", !.raised = "SpotifyException",
                               !.http_status = st, !.sleep = 4 * rt.backoff]
  /\ UNCHANGED notRetry

\* _retry, lines 445-446: fn raises a RequestException; the sleep lasts
\* backoff.
RetryNetwork ==
  /\ rt.pc = "call"
  /\ rt' = [Called EXCEPT !.pc = "sleep", !.raised = "RequestException",
                          !.http_status = 0, !.sleep = 4 * rt.backoff]
  /\ UNCHANGED notRetry

\* _retry, lines 434-444: fn raises SpotifyException with another status,
\* which _retry raises again.
RetryRaises ==
  /\ rt.pc = "call"
  /\ \E st \in Statuses :
       /\ ~RateLimited(st)
       /\ ~Transient(st)
       /\ rt' = [Called EXCEPT !.pc = "raised", !.raised = "SpotifyException",
                               !.http_status = st]
  /\ UNCHANGED notRetry

\* _retry, lines 437-438, 441-443 and 446-448: the sleep is over, backoff is
\* doubled up to 16 unless the status was 429, and the loop goes on.
RetryAgain ==
  /\ rt.pc = "sleep"
  /\ rt' = [rt EXCEPT !.pc = "call", !.sleep = 0,
                      !.backoff = IF RateLimited(rt.http_status) THEN @
                                  ELSE IF 2 * @ < MaxBackoff THEN 2 * @
                                  ELSE MaxBackoff]
  /\ UNCHANGED notRetry

\* _retry, lines 429-431.
InitRetry ==
  /\ InitWith(<<>>, 1, {})
  /\ WatchIdle /\ NavIdle /\ SearchIdle /\ SimplifyIdle /\ PlaylistIdle
  /\ rt = [pc |-> "call", backoff |-> FirstBackoff, calls |-> 0, sleep |-> 0,
           raised |-> "none", http_status |-> 0]

NextRetry ==
  \/ RetryReturns
  \/ RetryRateLimited
  \/ RetryTransient
  \/ RetryNetwork
  \/ RetryRaises
  \/ RetryAgain

\* The thread of _retry is not held up: fn returns or raises, a sleep ends.
SpecRetry == InitRetry /\ [][NextRetry]_rt /\ WF_rt(NextRetry)

\* ---------------------------------------- NPTELDownloader.download_playlist

\* The playlists tried have up to MaxVideos videos; a video is given by
\* whether it has a URL (get_all_video_urls gives an unavailable entry the
\* URL None).
MaxVideos == 4
Playlists == UNION {[1 .. n -> BOOLEAN] : n \in 1 .. MaxVideos}

\* The variables download_playlist leaves alone.
notPlaylist == <<vars, watchVars, nav, sh, sq, rt>>

\* download_video, lines 109-135: False for a video without URL, True when
\* ydl.download returns, False when it raises an Exception (`finished`
\* says that it returned).
download_video(has_url, finished) == has_url /\ finished

\* A loop body that counts a video without URL as failed.
CountedNoSkip(has_url, success) == IF success THEN "downloaded" ELSE "failed"
\* download_playlist, lines 208-218: the counter the body of the loop adds
\* one to.
Counted(has_url, success) ==
  IF ~has_url THEN "skipped" ELSE IF success THEN "downloaded" ELSE "failed"

\* download_playlist, lines 205-221: the body of the loop for video i, where
\* ydl.download returns or raises an Exception.
PlVideo ==
  /\ pl.pc = "loop"
  /\ pl.i <= Len(pl.videos)
  /\ \E finished \in BOOLEAN :
       LET has_url == pl.videos[pl.i]
           success == download_video(has_url, finished)
           counter == Counted(has_url, success)
       IN pl' = [pl EXCEPT
                   !.i = @ + 1,
                   !.success = IF has_url THEN success ELSE @,
                   !.skipped = IF counter = "skipped" THEN @ + 1 ELSE @,
                   !.downloaded = IF counter = "downloaded" THEN @ + 1 ELSE @,
                   !.failed = IF counter = "failed" THEN @ + 1 ELSE @]
  /\ UNCHANGED notPlaylist

\* download_video, lines 130-135: ydl.download is ended by an exception
\* that is no Exception (KeyboardInterrupt, when the user presses Ctrl-C),
\* which download_video does not catch; download_playlist ends with it.
PlInterrupted ==
  /\ pl.pc = "loop"
  /\ pl.i <= Len(pl.videos)
  /\ pl.videos[pl.i]
  /\ pl' = [pl EXCEPT !.pc = "raised"]
  /\ UNCHANGED notPlaylist

\* download_playlist, lines 223-232: the loop is over and the summary is
\* printed.
PlSummary ==
  /\ pl.pc = "loop"
  /\ pl.i > Len(pl.videos)
  /\ pl' = [pl EXCEPT !.pc = "summary"]
  /\ UNCHANGED notPlaylist

\* download_playlist, lines 201-205: the user has confirmed, the counters
\* are 0 and the loop begins with the first video of a list that is not
\* empty (line 188).
InitPlaylist ==
  /\ InitWith(<<>>, 1, {})
  /\ WatchIdle /\ NavIdle /\ SearchIdle /\ SimplifyIdle /\ RetryIdle
  /\ \E vs \in Playlists :
       pl = [pc |-> "loop", videos |-> vs, i |-> 1, downloaded |-> 0,
             failed |-> 0, skipped |-> 0, success |-> FALSE]

NextPlaylist ==
  \/ PlVideo
  \/ PlInterrupted
  \/ PlSummary

SpecPlaylist == InitPlaylist /\ [][NextPlaylist]_pl

\* ------------------------------------------------------- specifications

Next ==
  \/ RunStart /\ UNCHANGED auxVars
  \/ Submit /\ UNCHANGED auxVars
  \/ \E w \in Workers : Collect(w) /\ UNCHANGED auxVars
  \/ Summary /\ UNCHANGED auxVars
  \/ \E w \in Workers : BuildOk(w) /\ UNCHANGED auxVars
  \/ \E w \in Workers : BuildConflict(w) /\ UNCHANGED auxVars
  \/ \E w \in Workers : BuildError(w) /\ UNCHANGED auxVars
  \/ \E w \in Workers : Nav(w) /\ UNCHANGED auxVars
  \/ \E w \in Workers : Raise(w) /\ UNCHANGED auxVars
  \/ \E w \in Workers : Search(w) /\ UNCHANGED auxVars
  \/ \E w \in Workers : NoResults(w) /\ UNCHANGED auxVars
  \/ \E w \in Workers : Locate(w) /\ UNCHANGED auxVars
  \/ \E w \in Workers : Click(w) /\ UNCHANGED auxVars
  \/ \E w \in Workers : Await(w) /\ UNCHANGED auxVars
  \/ \E w \in Workers : NoFile(w) /\ UNCHANGED auxVars
  \/ \E w \in Workers : Resolve(w) /\ UNCHANGED auxVars
  \/ \E w \in Workers : Loop(w) /\ UNCHANGED auxVars
  \/ \E w \in Workers : Move(w) /\ UNCHANGED auxVars
  \/ \E w \in Workers : MoveFails(w) /\ UNCHANGED auxVars
  \/ \E w \in Workers : Quit(w) /\ UNCHANGED auxVars
  \/ \E w \in Workers : QuitRaises(w) /\ UNCHANGED auxVars
  \/ \E w \in Workers : RemoveProfile(w) /\ UNCHANGED auxVars

Spec == Init /\ [][Next]_vars

\* The thread of run is not held up: as_completed yields every finished
\* future, and the last line follows the last of them.
FairSpec ==
  /\ InitFair
  /\ [][Next]_vars
  /\ WF_vars(\E w \in Workers : Collect(w))
  /\ WF_vars(Summary)

NextPartition == RunStart /\ UNCHANGED auxVars

SpecPartition == InitPartition /\ [][NextPartition]_vars

\* ------------------------------------------------------------ claims: C1

\* The global indices of a bucket, in the bucket's order.
IndicesOf(b) == [j \in 1 .. Len(b) |-> b[j][1]]

\* The number of entries of the buckets of the workers ws.
RECURSIVE SumLen(_, _)
SumLen(bs, ws) ==
  IF ws = {} THEN 0
  ELSE LET w == CHOOSE x \in ws : TRUE IN Len(bs[w]) + SumLen(bs, ws \ {w})

\* Where the buckets hold global index i: <<worker, position>>.
Holders(i) == {<<w, j>> \in Workers \X (1 .. Len(queries)) :
                 j <= Len(buckets[w]) /\ buckets[w][j][1] = i}

\* C1: once run has filled the buckets, the query at position i is in the
\* bucket of worker i mod CONCURRENCY and nowhere else, the buckets together
\* hold exactly the Len(queries) queries, each with its own text, and the
\* global indices of every bucket increase (the input order is kept); with 3
\* workers and 7 queries the buckets are [0,3,6], [1,4] and [2,5].
C1_Partition ==
  runpc \notin {"start", "returned"} =>
    /\ \A i \in Indices :
         /\ Cardinality(Holders(i)) = 1
         /\ \A h \in Holders(i) :
              /\ h[1] = i % concurrency
              /\ buckets[h[1]][h[2]] = <<i, queries[i + 1]>>
    /\ SumLen(buckets, Workers) = Len(queries)
    /\ \A w \in Workers : \A a, b \in 1 .. Len(buckets[w]) :
         a < b => buckets[w][a][1] < buckets[w][b][1]
    /\ (concurrency = 3 /\ Len(queries) = 7) =>
         /\ IndicesOf(buckets[0]) = <<0, 3, 6>>
         /\ IndicesOf(buckets[1]) = <<1, 4>>
         /\ IndicesOf(buckets[2]) = <<2, 5>>

\* 7 queries, two of them with the same text, partitioned over 3 workers.
C1_Witness ==
  /\ runpc = "submit"
  /\ concurrency = 3
  /\ Len(queries) = 7
  /\ queries[1] = queries[4]
  /\ Len(buckets[0]) = 3

\* ------------------------------------------------------------ claims: C2

\* The workers whose bucket holds a query.
NonEmpty == {w \in Workers : buckets[w] # <<>>}

\* C2: a worker is submitted only for a non-empty bucket: a worker with no
\* query never leaves "unsubmitted", never attempts a launch and never has a
\* session or a profile directory, and once the comprehension is through,
\* the futures are exactly the workers with a non-empty bucket.
C2_OnlyNonEmptySpawned ==
  /\ \A w \in Workers :
       buckets[w] = <<>> =>
         /\ pc[w] = "unsubmitted"
         /\ session[w] = "none"
         /\ attempt[w] = 0
         /\ w \notin profiles
  /\ runpc \in {"collect", "done"} =>
       /\ Futures = NonEmpty
       /\ Cardinality(Futures) = Cardinality(NonEmpty)

\* One query and two workers: worker 1 has nothing to do and was not
\* submitted, worker 0 ran with a session.
C2_Witness ==
  /\ runpc = "done"
  /\ Len(queries) = 1
  /\ concurrency = 2
  /\ pc[1] = "unsubmitted"
  /\ session[0] = "closed"

\* ------------------------------------------------------------ claims: C3

\* The places that hold the download of query i.
HeldIn(i) ==
  {<<"DOWNLOADS", f>> : f \in {g \in DOMAIN downloads : downloads[g] = i}}
  \cup UNION {{<<"worker", w, f>> : f \in {g \in DOMAIN worker_dir[w] :
                                             worker_dir[w][g] = i}} :
              w \in Workers}

\* C3: under every interleaving the downloads that were reported end at
\* distinct final paths and no move into DOWNLOADS replaces a file that is
\* there: every query reported as downloaded still has its file, at one
\* path of its own.
C3_UniqueFinalNames ==
  \A i \in Indices : outcome[i] = "downloaded" => Cardinality(HeldIn(i)) = 1

\* ------------------------------------------------------------ claims: C4

\* The step of worker w that settles the target of its move.
Settles(w) == pc[w] \in {"resolve", "loop"} /\ pc'[w] = "move"

\* "<stem> (j)<ext>" for the name of a download.
Numbered(name, j) == Cand(Stem(name), j, Suffix(name))

\* The names a run of resolutions of "Song.mp3" gives, in order.
SongSeries == <<Song, Song1, Song2, Song3>>

\* A single worker, nothing in DOWNLOADS from earlier runs, and no download
\* left behind in the worker's folder by a move that failed: every
\* resolution so far was one of the candidate "Song.mp3".
OnlySongResolved ==
  /\ concurrency = 1
  /\ \A f \in DOMAIN downloads : downloads[f] # Old
  /\ \A f \in DOMAIN worker_dir[0] :
       /\ f = Song
       /\ pc[0] \in {"resolve", "loop", "move"}
       /\ worker_dir[0][f] = Current(0)

\* C4: the target settled for a download is its own name when DOWNLOADS has
\* no file of that name, and otherwise "<stem> (k)<ext>" for the smallest
\* k >= 1 that DOWNLOADS does not have; so the downloads named "Song.mp3"
\* that one worker moves one after the other into an empty DOWNLOADS end as
\* "Song.mp3", "Song (1).mp3", "Song (2).mp3", ... in that order.
C4_CollisionNames ==
  /\ [][\A w \in Workers :
          Settles(w) =>
            IF got[w] \notin DOMAIN downloads
            THEN target'[w] = got[w]
            ELSE /\ k[w] >= 1
                 /\ target'[w] = Numbered(got[w], k[w])
                 /\ target'[w] \notin DOMAIN downloads
                 /\ \A j \in 1 .. k[w] - 1 :
                      Numbered(got[w], j) \in DOMAIN downloads]_vars
  /\ [](OnlySongResolved =>
          LET m == Cardinality(DOMAIN downloads)
          IN /\ m <= Len(SongSeries) =>
                  DOMAIN downloads = {SongSeries[j] : j \in 1 .. m}
             /\ \A a, b \in 1 .. Len(SongSeries) :
                  (a < b /\ b <= m) =>
                     downloads[SongSeries[a]] < downloads[SongSeries[b]])

\* One worker has moved three downloads named "Song.mp3" into DOWNLOADS.
C4_Witness ==
  /\ OnlySongResolved
  /\ DOMAIN downloads = {Song, Song1, Song2}
  /\ downloads[Song] = 0
  /\ downloads[Song1] = 1
  /\ downloads[Song2] = 2

\* ------------------------------------------------------------ claims: C5

\* The worker has begun to handle its queries, and is releasing its session
\* or has released it.
TornDown(w) ==
  /\ temp_user_data[w]
  /\ pos[w] >= 1
  /\ pc[w] \in {"quit", "rmtree", "done", "failed"}

\* C5: an exception raised while a query is handled is caught at the query
\* and recorded as that query's outcome, and the worker goes on: a session
\* is torn down only when the worker's assignment is exhausted, every query
\* of it having an outcome.
C5_QueryFailureContained ==
  \A w \in Workers :
    TornDown(w) =>
      /\ pos[w] > Len(Tasks(w))
      /\ \A j \in 1 .. Len(Tasks(w)) : outcome[Tasks(w)[j][1]] # "none"

\* ------------------------------------------------------------ claims: C6

\* The worker handled its whole assignment.
Exhausted(w) ==
  /\ pos[w] > Len(Tasks(w))
  /\ \A j \in 1 .. Len(Tasks(w)) : outcome[Tasks(w)[j][1]] # "none"

\* The queries of worker w that were reported as downloaded.
Successes(w) ==
  {j \in 1 .. Len(Tasks(w)) : outcome[Tasks(w)[j][1]] = "downloaded"}

\* C6: a worker ends as failed only by an exception of its own, a worker
\* whose session could not be created has no success, a failed worker gains
\* no success afterwards, and when run is through, every failed worker was
\* reported and every worker that raised nothing has handled its whole
\* assignment, whatever happened to the others.
C6_WorkerIsolation ==
  /\ [](\A w \in Workers :
          /\ pc[w] = "failed" => exc[w] # "none"
          /\ exc[w] \in {"session", "driver"} =>
               /\ pc[w] = "failed"
               /\ Successes(w) = {}
               /\ exc[w] = "session" => attempt[w] = MaxAttempts
          /\ runpc = "done" =>
               /\ w \in Futures => pc[w] \in {"done", "failed"}
               /\ pc[w] = "failed" => w \in reported
               /\ (w \in Futures /\ exc[w] = "none") =>
                    pc[w] = "done" /\ Exhausted(w))
  /\ [][\A w \in Workers :
          pc[w] = "failed" => Successes(w)' = Successes(w)]_vars

\* Worker 0 failed all three launches and was reported, worker 1 handled its
\* assignment and has a download.
C6_Witness ==
  /\ runpc = "done"
  /\ concurrency = 2
  /\ exc[0] = "session"
  /\ attempt[0] = MaxAttempts
  /\ 0 \in reported
  /\ pc[1] = "done"
  /\ Exhausted(1)
  /\ Successes(1) # {}

\* ------------------------------------------------------------ claims: C7

\* C7: build_driver makes at most 3 attempts on session-creation conflicts,
\* each with a profile directory of its own and a backoff after each failed
\* attempt, returns the session of the first attempt that succeeds and
\* raises the conflict only after 3 failed attempts.
C7_RetryWithBackoff ==
  \A w \in Workers :
    /\ attempt[w] <= MaxAttempts
    /\ backoffs[w] = attempt[w]
    /\ exc[w] = "session" => attempt[w] = MaxAttempts
    /\ (attempt[w] > 0 /\ pc[w] = "build") => w \in profiles
    /\ session[w] # "none" => temp_user_data[w]

\* ------------------------------------------------------------ claims: C8

\* The worker has ended, and it had a session.
EndedWithSession(w) == temp_user_data[w] /\ pc[w] \in {"done", "failed"}

AllFinished == \A w \in Futures : pc[w] \in {"done", "failed"}

\* run has not been ended by an error: it stops only after its last line
\* (or at once, when there is no query at all), and with every submitted
\* worker ended it can go on.
NeverAborted ==
  /\ runpc \in {"start", "returned", "submit", "collect", "done"}
  /\ runpc = "returned" => queries = <<>> /\ Futures = {}
  /\ runpc \in {"returned", "done"} \/ ENABLED Next
  /\ (runpc = "collect" /\ AllFinished) =>
        ENABLED ((\E w \in Workers : Collect(w)) \/ Summary)
  /\ runpc = "done" => AllFinished /\ collected = Futures

Count(o) == Cardinality({i \in Indices : outcome[i] = o})

\* C10: when run is through, every query has exactly one outcome: the counts
\* of downloaded, failed (no file detected) and skipped (no results) queries
\* sum to the number of queries.
C10_OutcomePerQuery ==
  runpc = "done" =>
    Count("downloaded") + Count("no_file") + Count("no_results") = Len(queries)

\* ----------------------------------------------------------- claims: C11

\* C11 as stated: when the partial file of the click's download has appeared
\* and was renamed to its final name before the deadline, in a directory
\* that holds nothing else, wait_for_download returns the final file.
C11_FinalReturned ==
  (/\ wfd.pc = "returned"
   /\ DOMAIN ddir = {Song}
   /\ ddir[Song].since < wfd.end) => wfd.result = Song

\* C11 as amended: when phase 1 has identified a partial file and that file
\* was renamed to its final name more than one poll interval of phase 2
\* before the deadline, wait_for_download returns the final file; and when
\* phase 1 has identified none, a final file that is not hidden and is the
\* only new non-temporary file of the directory at the deadline is returned.
C11_IdentifiedFinalReturned ==
  wfd.pc = "returned" =>
    /\ \A f \in Triggered :
         (/\ wfd.candidate = Partial(f)
          /\ Partial(f) \notin DOMAIN ddir
          /\ f \in DOMAIN ddir
          /\ ddir[f].since + Phase2Sleep < wfd.end) => wfd.result = f
    /\ \A f \in Triggered :
         (/\ wfd.candidate = NoPath
          /\ ~Hidden(f)
          /\ {p \in DOMAIN ddir : ~IsCrdownload(p)
                                   /\ ddir[p].mtime >= wfd.new_after_ts} = {f})
            => wfd.result = f

\* Phase 1 identified the partial file of the click's download while the
\* partial file of an earlier download was there too, and the final file
\* was returned.
C11_Witness ==
  /\ wfd.pc = "returned"
  /\ wfd.candidate = Partial(Song)
  /\ DOMAIN ddir = {Song, Other}
  /\ ddir[Song].since + Phase2Sleep < wfd.end
  /\ wfd.result = Song

\* ----------------------------------------------------------- claims: C12

\* The files that count as resolved: new and not temporary, or of the
\* final name of the partial file phase 1 identified.
Resolved ==
  {p \in DOMAIN ddir :
     \/ ~IsCrdownload(p) /\ ddir[p].mtime >= wfd.new_after_ts
     \/ wfd.candidate # NoPath /\ p \o Crdownload = wfd.candidate}

OnSite == {j \in 1 .. Len(nav.log) : nav.log[j].on_site}
\* The turns that raised nothing and after which the browser was on the site.
Landed == {j \in OnSite : nav.log[j].err = "none"}

\* The strategies are tried in the order direct, js, new_tab, cdp.
InOrder ==
  \A j \in 1 .. Len(nav.log) :
    nav.log[j].label = <<"direct", "js", "new_tab", "cdp">>[j]

\* C13 as stated: the strategies are tried in the fixed order, and the
\* first strategy after which the browser is on the site is the last one
\* tried: force_nav has returned with it.
C13_FirstOnDomain ==
  /\ InOrder
  /\ \A j \in OnSite : j = Len(nav.log) /\ nav.pc = "returned"
  /\ nav.pc = "returned" => OnSite = {Len(nav.log)}

\* C13 as amended: the strategies are tried in the fixed order, and the
\* first strategy that raises nothing (the wait for the page included) and
\* after which the browser is on the site is the last one tried: force_nav
\* has returned with it.
C13_FirstCompletedOnDomain ==
  /\ InOrder
  /\ \A j \in Landed : j = Len(nav.log) /\ nav.pc = "returned"
  /\ nav.pc = "returned" => Landed = {Len(nav.log)}

\* The first strategy raised with the browser on the site, the second ended
\* elsewhere, the third landed, and the fourth was not tried.
C13_Witness ==
  /\ nav.pc = "returned"
  /\ Len(nav.log) = 3
  /\ nav.log[1].err # "none" /\ nav.log[1].on_site
  /\ nav.log[2].err = "none" /\ ~nav.log[2].on_site

\* ----------------------------------------------------------- claims: C14

\* force_nav has ended.
NavEnded == nav.pc \in {"returned", "raised"}

\* The turns that raised.
Raisers == {j \in 1 .. Len(nav.log) : nav.log[j].err # "none"}

\* The exception of the latest turn that raised.
LatestRaised == nav.log[CHOOSE j \in Raisers : \A i \in Raisers : i <= j].err

\* The failure carries the last exception, or the generic error.
CarriesLast ==
  nav.pc = "raised" =>
    nav.result = IF Raisers = {} THEN "RuntimeError" ELSE LatestRaised

\* C14 as stated: force_nav fails if and only if all four strategies were
\* tried and after none of them the browser was on the site, and the
\* failure carries the last exception.
C14_FailsIffNoneOnDomain ==
  /\ NavEnded => (nav.pc = "raised" <=> (Len(nav.log) = 4 /\ OnSite = {}))
  /\ CarriesLast

\* C14 as amended: force_nav fails if and only if all four strategies were
\* tried and each of them raised or ended with the browser elsewhere; the
\* failure carries the exception of the latest strategy that raised, or
\* the generic error when none did; and a strategy that raises does not end
\* force_nav, the next one is tried.
C14_FailsIffNoneCompleted ==
  /\ NavEnded => (nav.pc = "raised" <=> (Len(nav.log) = 4 /\ Landed = {}))
  /\ CarriesLast
  /\ \A j \in Raisers : j < Len(nav.log) \/ j = 4 \/ nav.pc = "loop"
  /\ (nav.pc = "loop" /\ Len(nav.log) < 4) => ENABLED NextNav

\* Two strategies raised, the second with the browser on the site, the
\* other two ended elsewhere, and the failure carries the second exception.
C14_Witness ==
  /\ nav.pc = "raised"
  /\ nav.log[1].err = "WebDriverException"
  /\ nav.log[2].err = "TimeoutException" /\ nav.log[2].on_site
  /\ nav.log[3].err = "none"
  /\ nav.log[4].err = "none"
  /\ nav.result = "TimeoutException"

\* ----------------------------------------------------------- claims: C15

\* The submissions of a result of simplify_query.
SimplifiedSent == {j \in 1 .. Len(sh.sent) : sh.sent[j].simplified}

\* C15: a query is submitted at most twice, the second time in its
\* simplified form and only when that differs from the text submitted
\* before, and a simplified form is submitted at most once, however often
\* the results stay away.
C15_OneSimplifiedRetry ==
  /\ Len(sh.sent) <= 2
  /\ Cardinality(SimplifiedSent) <= 1
  /\ \A j \in 2 .. Len(sh.sent) : sh.sent[j].text # sh.sent[j - 1].text

\* ----------------------------------------------------------- claims: C16

\* Where " - " begins in s, and where the character c is.
DashAt(s) ==
  {i \in 1 .. Len(s) - 2 : s[i] = " " /\ s[i + 1] = "-" /\ s[i + 2] = " "}
CharAt(s, c) == {i \in 1 .. Len(s) : s[i] = c}

\* The part of s before the least position of ps (s when ps is empty).
Before(s, ps) ==
  IF ps = {} THEN s
  ELSE SubSeq(s, 1, (CHOOSE i \in ps : \A j \in ps : i <= j) - 1)

\* s without the blanks around it.
Trimmed(s) ==
  LET ink == {i \in 1 .. Len(s) : s[i] # " "}
  IN IF ink = {} THEN <<>>
     ELSE SubSeq(s, CHOOSE i \in ink : \A j \in ink : i <= j,
                    CHOOSE i \in ink : \A j \in ink : j <= i)

\* The result as the claim describes it.
Described(q) ==
  LET title == Trimmed(Before(q, DashAt(q)))
      round == Trimmed(Before(title, CharAt(title, "(")))
      square == Trimmed(Before(round, CharAt(round, "[")))
  IN SubSeq(square, 1, IF Len(square) > 90 THEN 90 ELSE Len(square))

\* C16: simplify_query(q) is the part of q before the first " - ", cut at
\* the first "(" and then at the first "[", stripped and cut to 90
\* characters; it has at most 90 characters and holds no " - ", "(" or
\* "["; and "Imagine - John Lennon (Remastered 2010)" gives "Imagine".
C16_Simplified ==
  sq.pc = "returned" =>
    /\ sq.result = Described(sq.q)
    /\ Len(sq.result) <= 90
    /\ DashAt(sq.result) = {}
    /\ CharAt(sq.result, "(") = {}
    /\ CharAt(sq.result, "[") = {}
    /\ sq.q = Imagine => sq.result = <<"I", "m", "a", "g", "i", "n", "e">>

\* A query of more than 90 letters before its " - ", with a qualifier.
C16_Witness ==
  /\ sq.pc = "returned"
  /\ Len(sq.q) > 90
  /\ DashAt(sq.q) # {}
  /\ Len(sq.result) = 90

\* ----------------------------------------------------------- claims: C17

\* C17: whatever the failures of the wrapped call, _retry ends, by
\* returning the call's result or by raising.
C17_RetryTerminates == <>(rt.pc \in {"returned", "raised"})

\* ----------------------------------------------------------- claims: C18

\* The worker is handling a query: it is in the body of the for loop.
Handling(w) ==
  pc[w] \in {"search", "locate", "click", "await", "resolve", "loop", "move"}

\* C18: under every interleaving a worker handles one query at a time, the
\* one at position pos of its bucket; exactly the queries before that
\* position have been handled, and the position moves on by one, when the
\* handling of the query it leaves has ended with an outcome.
C18_InAssignmentOrder ==
  /\ [](\A w \in Workers :
          /\ Handling(w) => pos[w] \in 1 .. Len(buckets[w])
          /\ \A j \in 1 .. Len(buckets[w]) :
               outcome[buckets[w][j][1]] # "none" <=> j < pos[w])
  /\ [][\A w \in Workers :
          pos'[w] # pos[w] =>
            /\ pos'[w] = pos[w] + 1
            /\ pos[w] >= 1 => /\ Handling(w)
                              /\ outcome'[buckets[w][pos[w]][1]] # "none"]_vars

\* Worker 0 is at the second query of its bucket, the first one handled,
\* while worker 1 waits for the download of its query.
C18_Witness ==
  /\ concurrency = 2
  /\ Len(queries) = 3
  /\ pos[0] = 2
  /\ pc[0] = "click"
  /\ outcome[0] = "downloaded"
  /\ pc[1] = "await"

\* ----------------------------------------------------------- claims: C19

\* run, line 453: the worker whose bucket holds the query at position i.
Owner(i) == i % concurrency

\* C19: under every interleaving a worker handles only queries of its own
\* bucket, no two workers handle the same query, no bucket holds a query
\* twice, and the outcome of query i is written once, by the step with
\* which the worker of bucket i mod CONCURRENCY leaves that query.
C19_OneWorkerPerQuery ==
  /\ [](\A w \in Workers :
          /\ Handling(w) => /\ pos[w] \in 1 .. Len(buckets[w])
                            /\ Owner(buckets[w][pos[w]][1]) = w
          /\ \A a, b \in 1 .. Len(buckets[w]) :
               a # b => buckets[w][a][1] # buckets[w][b][1]
          /\ \A v \in Workers \ {w} :
               (Handling(v) /\ Handling(w)) =>
                  /\ pos[v] \in 1 .. Len(buckets[v])
                  /\ pos[w] \in 1 .. Len(buckets[w])
                  /\ buckets[v][pos[v]][1] # buckets[w][pos[w]][1])
  /\ [][\A i \in Indices :
          outcome'[i] # outcome[i] =>
            /\ outcome[i] = "none"
            /\ pos'[Owner(i)] = pos[Owner(i)] + 1
            /\ buckets[Owner(i)][pos[Owner(i)]][1] = i]_vars

\* Three queries over two workers, every one of them handled.
C19_Witness ==
  /\ runpc = "done"
  /\ concurrency = 2
  /\ Len(queries) = 3
  /\ \A i \in Indices : outcome[i] # "none"
  /\ pos[0] = 3
  /\ pos[1] = 2

\* ----------------------------------------------------------- claims: C20

\* C20: the file wait_for_download returns is the download of the click,
\* never the file of an earlier download of the worker.
C20_OwnDownload ==
  (wfd.pc = "returned" /\ wfd.result # NoPath) => wfd.result = Song

\* ----------------------------------------------------------- claims: C21

\* The step of phase 1 that sets `candidate`.
Selects == wfd.pc = "phase1" /\ wfd'.pc = "phase2"

\* C21: the file phase 1 selects is a partial file of the directory whose
\* mtime is at or after new_after_ts, and no partial file of that scan that
\* is at or after new_after_ts has a greater mtime.
C21_NewestPartialSelected ==
  [][Selects =>
       /\ wfd'.candidate \in DOMAIN ddir
       /\ Suffix(wfd'.candidate) = Crdownload
       /\ ddir[wfd'.candidate].mtime >= wfd.new_after_ts
       /\ \A o \in DOMAIN ddir :
            (Suffix(o) = Crdownload /\ ddir[o].mtime >= wfd.new_after_ts)
              => ddir[o].mtime <= ddir[wfd'.candidate].mtime]_watchVars

\* Phase 1 has just selected the partial file of the click's download while
\* the partial file of an earlier download, written to after the click but
\* less recently, was in the directory too.
C21_Witness ==
  /\ wfd.pc = "phase2"
  /\ wfd.wake <= now
  /\ wfd.candidate = Partial(Song)
  /\ {Partial(Song), Partial(Other)} \subseteq DOMAIN ddir
  /\ ddir[Partial(Other)].mtime >= wfd.new_after_ts
  /\ ddir[Partial(Other)].mtime < ddir[Partial(Song)].mtime

\* ----------------------------------------------------------- claims: C22

\* C22: whatever the page does, a call of search_here ends, by returning or
\* by raising.
C22_SearchTerminates == <>(sh.pc \in {"returned", "raised"})

\* ----------------------------------------------------------- claims: C23

\* C23: a profile directory exists only while build_driver is at work or
\* while the session it was made for is in use; when build_driver has
\* raised (after the third conflict, or on another error) and when the
\* worker has ended, the worker has no profile directory left.
C23_NoProfileLeak ==
  \A w \in Workers :
    w \in profiles =>
      \/ pc[w] = "build"
      \/ temp_user_data[w] /\ pc[w] \notin {"done", "failed"}

\* ----------------------------------------------------------- claims: C24

\* C24: simplify_query applied to its own result gives that result again.
C24_Idempotent ==
  sq.pc = "returned" => simplify_query(sq.result) = sq.result

\* ----------------------------------------------------------- claims: C25

\* The videos the loop has been through.
Processed == pl.i - 1

\* C25: in the loop of download_playlist the three counters sum to the
\* number of videos the loop has been through; a video changes one counter
\* by one and leaves the other two alone: skipped when it has no URL,
\* downloaded when download_video returned True, failed when it returned
\* False; and the counters of the summary sum to the number of videos.
C25_CountersAddUp ==
  /\ [](pl.pc \in {"loop", "raised", "summary"} =>
          pl.downloaded + pl.failed + pl.skipped = Processed)
  /\ [](pl.pc = "summary" =>
          pl.downloaded + pl.failed + pl.skipped = Len(pl.videos))
  /\ [][pl'.i = pl.i + 1 =>
          LET d == pl'.downloaded - pl.downloaded
              f == pl'.failed - pl.failed
              s == pl'.skipped - pl.skipped
          IN IF ~pl.videos[pl.i] THEN d = 0 /\ f = 0 /\ s = 1
             ELSE IF pl'.success THEN d = 1 /\ f = 0 /\ s = 0
             ELSE d = 0 /\ f = 1 /\ s = 0]_pl

\* The summary of a playlist with a video of each kind: one without URL,
\* one downloaded and one whose download failed.
C25_Witness ==
  /\ pl.pc = "summary"
  /\ pl.skipped > 0
  /\ pl.downloaded > 0
  /\ pl.failed > 0

\* ----------------------------------------------------------- claims: C26

\* C26: a path wait_for_download returns names a file of the directory
\* that has not the temporary extension and does not begin with a dot.
C26_NeverPartialOrHidden ==
  (wfd.pc = "returned" /\ wfd.result # NoPath) =>
    /\ wfd.result \in DOMAIN ddir
    /\ ~IsCrdownload(wfd.result)
    /\ ~Hidden(wfd.result)

====
